---- MODULE Spec2Model ----
(***************************************************************************)
(* The storefront's account/session authorization layer (App.tsx route     *)
(* guards), the administrator's order-fulfilment workflow                  *)
(* (AdminPage.tsx handleUpdateOrderStatus) and its notification side       *)
(* effect, and the administrator's product catalog form (handleAddProduct). *)
(***************************************************************************)
EXTENDS Naturals, Integers, FiniteSets, Sequences, Bags, TLC

(***************************************************************************)
(* Bounds and input domains                                                *)
(***************************************************************************)
\* at most this many handleUpdateOrderStatus invocations are made in a run
MaxCalls == 2

\* at most this many fetchOrders requests are in flight at once
MaxFetches == 2

\* at most this many products are inserted, in flight or stored, in a run
MaxProducts == 1

\* at most this many handleUpdateProduct invocations are made in a run
MaxEdits == 2

\* at most this many signIn / signUp calls are made in a run
MaxAttempts == 2

\* GoogleTranslateBar is mounted at most this many times in a run
MaxMounts == 2

\* at most this many fetchWeather invocations are made in a run
MaxWeather == 3

\* the orders of the record store (Scenario 4 uses order #7)
OrderIds == {7}

\* values an administrator types into the tracking field
TrackingInputs == {"", "T123"}

\* what an administrator types into the Name and Price fields of the add form
ProductNames == {"", "Urea"}
PriceTexts == {"", "0", "-5", "250"}

\* status tokens handed to handleUpdateOrderStatus when it is called directly
HandlerTokens == {"shipped", "refunded"}

\* the accounts known to the identity provider
Accounts == {"asha", "root"}

(***************************************************************************)
(* Session Store (contexts/AuthContext, exposed through useAuth)           *)
(***************************************************************************)
NoUser == "null"

Role(account) == IF account = "root" THEN "administrator" ELSE "customer"

VARIABLES
  loading,   \* useAuth().loading
  user,      \* useAuth().user : NoUser or an account
  isAdmin,   \* useAuth().isAdmin
  path,      \* router location
  screen,    \* element rendered for the location
  redirect,  \* the <Navigate> element taken by the last render, or "none"
  db,        \* the record store's orders table
  orders,    \* AdminPage's orders state (rows fetched so far)
  fetches,   \* fetchOrders requests in flight (a bag)
  calls,     \* handleUpdateOrderStatus invocations in flight (a bag)
  issued,    \* number of handleUpdateOrderStatus invocations made so far
  event,     \* what the handler step just taken observed
  toasts,    \* toasts shown by the handler step just taken
  reads,     \* the tables a select was issued on by the step just taken
  catalog,   \* the record store's products table, newest first
  products,  \* AdminPage's products state (rows fetched so far)
  newProduct,      \* AdminPage's newProduct state (the add form)
  showAddProduct,  \* AdminPage's showAddProduct state
  pfetches,  \* fetchProducts requests in flight (a bag)
  inserts,   \* handleAddProduct invocations awaiting their insert (a bag)
  editingProduct,  \* AdminPage's editingProduct state (the row form), or NoEdit
  pupdates,  \* handleUpdateProduct invocations awaiting their update (a bag)
  edited,    \* number of handleUpdateProduct invocations made so far
  attempts,    \* AuthPage handleSubmit invocations awaiting signIn/signUp (a bag)
  submitting,  \* AuthPage's submitting state
  errors,      \* AuthPage's errors state: the fields that carry a message
  attempted,   \* number of signIn/signUp calls made so far
  google,      \* window.google: "absent", "namespace" (google.translate only) or "ready"
  script,      \* the element #google-translate-script: "none", "loading", "loaded", "failed"
  readyState,  \* document.readyState
  listener,    \* the retryCount seen by the registered load listener, or NoClosure
  retryCount,  \* GoogleTranslateBar's retryCount state
  isLoaded,    \* GoogleTranslateBar's isLoaded state
  effect,      \* the effect of GoogleTranslateBar is due to run
  init,        \* the retryCount seen by window.googleTranslateElementInit, or NoClosure
  timers,      \* pending 500 ms retry timers of the mounted GoogleTranslateBar
  mounts,      \* number of times GoogleTranslateBar was mounted
  geo,         \* WeatherAlerts' getCurrentPosition request: "pending" or "done"
  isLoading,   \* WeatherAlerts' isLoading state
  requests,    \* get-weather requests of fetchWeather in flight (a bag)
  cityInput,   \* WeatherAlerts' cityInput state
  currentCity, \* WeatherAlerts' currentCity state
  fetched      \* number of fetchWeather invocations made so far

vars == <<loading, user, isAdmin, path, screen, redirect, db, orders, fetches, calls, issued, event, toasts,
          reads, catalog, products, newProduct, showAddProduct, pfetches, inserts,
          editingProduct, pupdates, edited, attempts, submitting, errors, attempted,
          google, script, readyState, listener, retryCount, isLoaded, effect, init, timers, mounts,
          geo, isLoading, requests, cityInput, currentCity, fetched>>

\* the state of the catalog workflow
catalogVars == <<catalog, products, newProduct, showAddProduct, pfetches, inserts,
                 editingProduct, pupdates, edited>>

\* the state of the sign-in form
authVars == <<attempts, submitting, errors, attempted>>

\* the state of the translation bar and of the weather widget
translateVars == <<google, script, readyState, listener, retryCount, isLoaded, effect, init, timers, mounts>>
weatherVars == <<geo, isLoading, requests, cityInput, currentCity, fetched>>
widgetVars == <<translateVars, weatherVars>>

(***************************************************************************)
(* Route guards and the route table                                        *)
(***************************************************************************)
ProtectedPaths == {"/history", "/cart", "/checkout", "/orders"}
PublicPaths == {"/"}
Paths == PublicPaths \cup ProtectedPaths \cup {"/auth", "/admin"}

\* Outcome of a guard: the spinner, a <Navigate>, or the children
Pending == "Pending"
Allow == "Allow"
DenyToAuth == "Navigate:/auth"
DenyToHome == "Navigate:/"

\* variant: the guard forgets the !user test
ProtectedRoute_NoUserCheck(u, l) ==
  IF l THEN Pending ELSE Allow

ProtectedRoute(u, l) ==
  IF l THEN Pending
  ELSE IF u = NoUser THEN DenyToAuth
  ELSE Allow

\* variant: the guard decides before the session has loaded
AdminRoute_NoSpinner(u, a, l) ==
  IF u = NoUser \/ ~a THEN DenyToHome ELSE Allow

\* variant: the guard tests only that an account is bound
AdminRoute_UserOnly(u, a, l) ==
  IF l THEN Pending
  ELSE IF u = NoUser THEN DenyToHome
  ELSE Allow

\* variant: the guard never denies
AdminRoute_Open(u, a, l) ==
  IF l THEN Pending ELSE Allow

AdminRoute(u, a, l) ==
  IF l THEN Pending
  ELSE IF u = NoUser \/ ~a THEN DenyToHome
  ELSE Allow

\* AdminPage's own render: the "Access Denied" view unless isAdmin
AdminPageView(a) == IF a THEN "AdminPage" ELSE "AccessDenied"

\* variant: the /admin route is declared without its AdminRoute wrapper
Element_AdminUnguarded(p, u, a, l) ==
  IF p \in ProtectedPaths THEN
    LET g == ProtectedRoute(u, l) IN
      IF g = Pending THEN [screen |-> "Spinner", to |-> "", by |-> "none"]
      ELSE IF g = Allow THEN [screen |-> p, to |-> "", by |-> "none"]
      ELSE [screen |-> "", to |-> "/auth", by |-> "ProtectedRoute"]
  ELSE IF p = "/admin" THEN [screen |-> AdminPageView(a), to |-> "", by |-> "none"]
  ELSE IF p = "/auth" THEN
    IF u # NoUser THEN [screen |-> "", to |-> "/", by |-> "AuthRoute"]
    ELSE [screen |-> IF l THEN "Spinner" ELSE "AuthPage", to |-> "", by |-> "none"]
  ELSE [screen |-> p, to |-> "", by |-> "none"]

\* The element a <Route> renders: [screen |-> s, to |-> target-or-"", by |-> guard]
Element(p, u, a, l) ==
  IF p \in ProtectedPaths THEN
    LET g == ProtectedRoute(u, l) IN
      IF g = Pending THEN [screen |-> "Spinner", to |-> "", by |-> "none"]
      ELSE IF g = Allow THEN [screen |-> p, to |-> "", by |-> "none"]
      ELSE [screen |-> "", to |-> "/auth", by |-> "ProtectedRoute"]
  ELSE IF p = "/admin" THEN
    LET g == AdminRoute(u, a, l) IN
      IF g = Pending THEN [screen |-> "Spinner", to |-> "", by |-> "none"]
      ELSE IF g = Allow THEN [screen |-> AdminPageView(a), to |-> "", by |-> "none"]
      ELSE [screen |-> "", to |-> "/", by |-> "AdminRoute"]
  ELSE IF p = "/auth" THEN
    IF u # NoUser THEN [screen |-> "", to |-> "/", by |-> "AuthRoute"]
    ELSE [screen |-> IF l THEN "Spinner" ELSE "AuthPage", to |-> "", by |-> "none"]
  ELSE [screen |-> p, to |-> "", by |-> "none"]

\* Render the location, following <Navigate replace> elements until a screen shows
RECURSIVE Render(_, _, _, _, _)
Render(p, u, a, l, by) ==
  LET e == Element(p, u, a, l) IN
    IF e.to = "" THEN [path |-> p, screen |-> e.screen, redirect |-> by]
    ELSE Render(e.to, u, a, l, e.by)

(***************************************************************************)
(* Order records and the AdminPage's view of them                          *)
(***************************************************************************)
statusOptions == {"pending", "confirmed", "processing", "packed", "shipped", "delivered", "cancelled"}

Null == "null"
Absent == "undefined"

\* JavaScript truthiness of the optional trackingNumber argument
Truthy(t) == t # Absent /\ t # ""

NoRows == [o \in {} |-> Null]

\* in-flight requests as bags
Put(bag, x) == bag (+) SetToBag({x})
Take(bag, x) == bag (-) SetToBag({x})

\* fetchOrders: the select is issued; nothing is awaited by the caller
IssueFetch(bag) == Put(bag, [read |-> FALSE, rows |-> NoRows])

\* JavaScript numbers as far as the price field needs them
Num(n) == [nan |-> FALSE, n |-> n]
NaN == [nan |-> TRUE, n |-> 0]

\* parseFloat of the text of a type="number" input
parseFloat(text) ==
  CASE text = "" -> NaN
    [] text = "0" -> Num(0)
    [] text = "-5" -> Num(-5)
    [] text = "250" -> Num(250)

\* useState initial value of newProduct (name and price; the other fields are not validated)
EmptyProduct == [name |-> "", price |-> Num(0)]

\* useState initial value of editingProduct (null). row is the object held in
\* the state; from remembers the list row the edit began with.
NoRow == [id |-> 0, name |-> "", price |-> Num(0)]
NoEdit == [row |-> NoRow, from |-> NoRow]

\* AdminPage mounts (useState initial values, then the isAdmin effect) or unmounts.
\* Requests of an unmounted instance stay in flight, but its state setters are dead:
\* a select it issues is recorded in reads, its response is not followed.
Orphan(bag) ==
  LET live == BagToSet(bag)
      dead == {[c EXCEPT !.live = FALSE] : c \in live}
  IN [d \in dead |-> (IF d \in live THEN bag[d] ELSE 0)
                     + (IF [d EXCEPT !.live = TRUE] \in live THEN bag[[d EXCEPT !.live = TRUE]] ELSE 0)]

Mounting(before, after, a) ==
  IF before # "AdminPage" /\ after = "AdminPage" THEN
    /\ orders' = NoRows
    /\ products' = <<>>
    /\ newProduct' = EmptyProduct
    /\ showAddProduct' = FALSE
    /\ editingProduct' = NoEdit
    /\ pfetches' = IF a THEN IssueFetch(EmptyBag) ELSE EmptyBag
    /\ fetches' = IF a THEN IssueFetch(EmptyBag) ELSE EmptyBag
    /\ reads' = IF a THEN {"products", "orders"} ELSE {}
  ELSE IF before = "AdminPage" /\ after # "AdminPage" THEN
    /\ orders' = NoRows
    /\ products' = <<>>
    /\ newProduct' = EmptyProduct
    /\ showAddProduct' = FALSE
    /\ editingProduct' = NoEdit
    /\ pfetches' = EmptyBag
    /\ fetches' = EmptyBag
    /\ reads' = {}
  ELSE
    /\ UNCHANGED <<orders, fetches, products, newProduct, showAddProduct, editingProduct, pfetches>>
    /\ reads' = {}

Quiet == event' = "none" /\ toasts' = <<>>

\* a step that issues no select and leaves the catalog workflow alone
OrdersOnly == reads' = {} /\ UNCHANGED <<catalogVars, authVars, widgetVars>>

\* the router shows location p to identity u: the routes render, pages mount and unmount
Place(p, u, a, l) ==
  LET r == Render(p, u, a, l, "none") IN
    /\ path' = r.path
    /\ screen' = r.screen
    /\ redirect' = r.redirect
    /\ Mounting(screen, r.screen, a)
    /\ calls' = IF screen = "AdminPage" /\ r.screen # "AdminPage" THEN Orphan(calls) ELSE calls
    /\ inserts' = IF screen = "AdminPage" /\ r.screen # "AdminPage" THEN Orphan(inserts) ELSE inserts
    /\ pupdates' = IF screen = "AdminPage" /\ r.screen # "AdminPage" THEN Orphan(pupdates) ELSE pupdates
    /\ UNCHANGED <<db, issued, catalog, edited>>

\* AuthPage unmounts with the location: its state is dropped, its calls stay in flight
Leaving(after, bag) ==
  IF screen = "AuthPage" /\ after # "AuthPage" THEN
    /\ attempts' = Orphan(bag)
    /\ submitting' = FALSE
    /\ errors' = {}
  ELSE
    /\ attempts' = bag
    /\ UNCHANGED <<submitting, errors>>

Show(p, u, a, l) ==
  /\ Place(p, u, a, l)
  /\ Leaving(Render(p, u, a, l, "none").screen, attempts)
  /\ UNCHANGED <<attempted, widgetVars>>
  /\ Quiet

(***************************************************************************)
(* Session actions                                                         *)
(***************************************************************************)
\* the initial session lookup completes: the identity becomes known
SessionLoaded(u) ==
  /\ loading
  /\ loading' = FALSE
  /\ user' = u
  /\ isAdmin' = (u # NoUser /\ Role(u) = "administrator")
  /\ Show(path, user', isAdmin', FALSE)

\* Navbar onLogout={signOut}
SignOut ==
  /\ ~loading
  /\ user # NoUser
  /\ user' = NoUser
  /\ isAdmin' = FALSE
  /\ UNCHANGED loading
  /\ Show(path, NoUser, FALSE, loading)

\* the caller opens a location (link or address bar)
Navigate(p) ==
  /\ p # path
  /\ UNCHANGED <<loading, user, isAdmin>>
  /\ Show(p, user, isAdmin, loading)

\* AuthPage: a sign-in that the identity provider accepts binds the account
SignIn(u) ==
  /\ screen = "AuthPage"
  /\ user' = u
  /\ isAdmin' = (Role(u) = "administrator")
  /\ UNCHANGED loading
  /\ Show("/", u, isAdmin', loading)

(***************************************************************************)
(* AuthPage: the sign-in / sign-up form                                    *)
(***************************************************************************)
\* a text is the sequence of its characters
NoText == <<>>
EmailOf(u) == IF u = "root" THEN <<"r", "@", "x", ".", "i", "n">> ELSE <<"a", "@", "x", ".", "i", "n">>
AccountOf(email) == IF email = EmailOf("root") THEN "root" ELSE "asha"

\* the values typed into the form
NameInputs == {NoText, <<"A", "s", "h", "a">>}
EmailInputs == {<<"a", "s", "h", "a">>} \cup {EmailOf(u) : u \in Accounts}
PasswordInputs == {NoText, <<"a", "b", "c">>, <<"s", "e", "c", "r", "e", "t", "1">>}
Forms == [name : NameInputs, email : EmailInputs, password : PasswordInputs]

\* z.string().email(): one @ after a non-empty local part, and a domain that
\* holds a dot after at least one character and before at least two
IsEmail(text) ==
  LET ats == {i \in DOMAIN text : text[i] = "@"} IN
    /\ Cardinality(ats) = 1
    /\ \E at \in ats :
         /\ at > 1
         /\ \E d \in (at + 2)..(Len(text) - 2) : text[d] = "."

\* signupSchema / loginSchema .safeParse(formData): the fields that fail
fieldErrors(isSignup, formData) ==
  {f \in {"name"} : isSignup /\ Len(formData.name) < 2}
    \cup {f \in {"email"} : ~IsEmail(formData.email)}
    \cup {f \in {"password"} : Len(formData.password) < (IF isSignup THEN 6 ELSE 1)}

\* sign-up creates customers only; an administrator is assigned out of band
Accepts(a) == a.isSignup => Role(AccountOf(a.email)) = "customer"

\* a step of the sign-in form: the order and catalog workflows are left alone
AuthOnly ==
  /\ reads' = {}
  /\ UNCHANGED <<loading, user, isAdmin, path, screen, redirect, db, orders, fetches, calls, issued>>
  /\ UNCHANGED <<catalogVars, widgetVars>>

\* the form is submitted: validation, then the call to signIn / signUp
handleSubmit(isSignup, formData) ==
  /\ screen = "AuthPage"
  /\ ~submitting
  /\ IF fieldErrors(isSignup, formData) # {} THEN
       /\ errors' = fieldErrors(isSignup, formData)
       /\ submitting' = FALSE
       /\ event' = "authInvalid"
       /\ UNCHANGED <<attempts, attempted>>
     ELSE
       /\ attempted < MaxAttempts
       /\ errors' = {}
       /\ submitting' = TRUE
       /\ attempts' = Put(attempts, [isSignup |-> isSignup, email |-> formData.email,
                                     bound |-> FALSE, returned |-> FALSE, live |-> TRUE])
       /\ attempted' = attempted + 1
       /\ event' = "authCall"
  /\ toasts' = <<>>
  /\ AuthOnly

\* the session store publishes the identity of an accepted call: every consumer
\* of useAuth renders again, the /auth route among them
SessionBound(a) ==
  /\ BagIn(a, attempts)
  /\ ~a.bound
  /\ Accepts(a)
  /\ user' = AccountOf(a.email)
  /\ isAdmin' = (Role(user') = "administrator")
  /\ UNCHANGED loading
  /\ Place(path, user', isAdmin', loading)
  /\ Leaving(Render(path, user', isAdmin', loading, "none").screen,
             IF a.returned THEN Take(attempts, a)
             ELSE Put(Take(attempts, a), [a EXCEPT !.bound = TRUE]))
  /\ event' = "sessionBound"
  /\ toasts' = <<>>
  /\ UNCHANGED <<attempted, widgetVars>>

\* variant: a rejected call is followed by the redirect as well
SubmitReturns_AlwaysNavigates(a, r) ==
  /\ BagIn(a, attempts)
  /\ ~a.returned
  /\ r = "ok" => Accepts(a)
  /\ r # "ok" => ~a.bound
  /\ toasts' = IF r = "ok" THEN <<IF a.isSignup THEN "Account created successfully!" ELSE "Welcome back!">>
                ELSE IF r = "error" THEN <<IF a.isSignup THEN "error.message" ELSE "Invalid email or password">>
                ELSE <<"Something went wrong. Please try again.">>
  /\ event' = IF r = "ok" THEN "signedIn" ELSE IF r = "error" THEN "authError" ELSE "authThrew"
  /\ Place("/", user, isAdmin, loading)
  /\ Leaving("/", IF a.bound \/ r # "ok" THEN Take(attempts, a)
                  ELSE Put(Take(attempts, a), [a EXCEPT !.returned = TRUE]))
  /\ UNCHANGED <<loading, user, isAdmin, attempted, widgetVars>>

\* signIn / signUp returns to handleSubmit: r is "ok", "error" (an error was
\* returned) or "throw" (the call rejected)
SubmitReturns(a, r) ==
  /\ BagIn(a, attempts)
  /\ ~a.returned
  /\ r = "ok" => Accepts(a)
  /\ r # "ok" => ~a.bound
  /\ IF r = "ok" THEN
       /\ toasts' = <<IF a.isSignup THEN "Account created successfully!" ELSE "Welcome back!">>
       /\ event' = "signedIn"
       /\ Place("/", user, isAdmin, loading)
       /\ Leaving("/", IF a.bound THEN Take(attempts, a)
                       ELSE Put(Take(attempts, a), [a EXCEPT !.returned = TRUE]))
       /\ UNCHANGED <<loading, user, isAdmin, attempted, widgetVars>>
     ELSE
       /\ toasts' = IF r = "error"
                    THEN <<IF a.isSignup THEN "error.message" ELSE "Invalid email or password">>
                    ELSE <<"Something went wrong. Please try again.">>
       /\ event' = IF r = "error" THEN "authError" ELSE "authThrew"
       /\ attempts' = Take(attempts, a)
       /\ submitting' = IF a.live THEN FALSE ELSE submitting
       /\ UNCHANGED <<errors, attempted>>
       /\ AuthOnly

(***************************************************************************)
(* fetchOrders                                                             *)
(***************************************************************************)
\* the record store serves the select
FetchRead(f) ==
  /\ BagIn(f, fetches)
  /\ ~f.read
  /\ fetches' = Put(Take(fetches, f), [read |-> TRUE, rows |-> db])
  /\ UNCHANGED <<loading, user, isAdmin, path, screen, redirect, db, orders, calls, issued>>
  /\ OrdersOnly
  /\ Quiet

\* the response arrives: setOrders(mappedOrders), or the error toast
FetchReturns(f, ok) ==
  /\ BagIn(f, fetches)
  /\ f.read
  /\ fetches' = Take(fetches, f)
  /\ orders' = IF ok THEN f.rows ELSE orders
  /\ event' = "none"
  /\ toasts' = IF ok THEN <<>> ELSE <<"Failed to fetch orders">>
  /\ UNCHANGED <<loading, user, isAdmin, path, screen, redirect, db, calls, issued>>
  /\ OrdersOnly

(***************************************************************************)
(* handleUpdateOrderStatus                                                 *)
(***************************************************************************)
\* variant: the patch also carries the amount
UpdateData_WithTotal(status, trackingNumber) ==
  IF Truthy(trackingNumber)
  THEN [status |-> status, tracking_number |-> trackingNumber, total_amount |-> 0]
  ELSE [status |-> status, total_amount |-> 0]

\* variant: the two arguments are swapped when the tracking patch is built
UpdateData_Swapped(status, trackingNumber) ==
  IF Truthy(trackingNumber)
  THEN [status |-> trackingNumber, tracking_number |-> status]
  ELSE [status |-> status]

\* variant: the patch always carries the tracking field
UpdateData_FullOverwrite(status, trackingNumber) ==
  [status |-> status,
   tracking_number |-> IF Truthy(trackingNumber) THEN trackingNumber ELSE Null]

\* the partial patch sent to the orders table
UpdateData(status, trackingNumber) ==
  IF Truthy(trackingNumber)
  THEN [status |-> status, tracking_number |-> trackingNumber]
  ELSE [status |-> status]

\* the row after update(updateData).eq('id', orderId)
Patched(row, upd) ==
  [k \in DOMAIN row |-> IF k \in DOMAIN upd THEN upd[k] ELSE row[k]]

\* no invocation made yet
NoBody == [orderId |-> 0, newStatus |-> Null, trackingNumber |-> Absent]

\* variant: the invocation body leaves the tracking number out
NotificationBody_DropsTracking(c) ==
  [orderId |-> c.orderId, newStatus |-> c.status, trackingNumber |-> Absent]

\* the body of the send-order-notification invocation
NotificationBody(c) ==
  [orderId |-> c.orderId, newStatus |-> c.status,
   trackingNumber |-> IF Truthy(c.trackingNumber) THEN c.trackingNumber ELSE Absent]

\* variant: the notification is invoked first, without awaiting any write
StartCall_NotifyFirst(orderId, status, trackingNumber) ==
  /\ issued < MaxCalls
  /\ issued' = issued + 1
  /\ calls' = Put(calls, [orderId |-> orderId, status |-> status, trackingNumber |-> trackingNumber,
                          pc |-> "notify", invoked |-> 1, live |-> TRUE,
                          body |-> [orderId |-> orderId, newStatus |-> status, trackingNumber |-> trackingNumber]])
  /\ UNCHANGED <<loading, user, isAdmin, path, screen, redirect, db, orders, fetches>>
  /\ OrdersOnly
  /\ Quiet

\* the handler runs up to its first await: the update request is issued
StartCall(orderId, status, trackingNumber) ==
  /\ issued < MaxCalls
  /\ issued' = issued + 1
  /\ calls' = Put(calls, [orderId |-> orderId, status |-> status, trackingNumber |-> trackingNumber,
                          pc |-> "update", invoked |-> 0, live |-> TRUE,
                          body |-> NoBody])
  /\ UNCHANGED <<loading, user, isAdmin, path, screen, redirect, db, orders, fetches>>
  /\ OrdersOnly
  /\ Quiet

\* variant: the option's label, not its value, is passed on
SelectStatus_Label(o, s) ==
  /\ screen = "AdminPage"
  /\ o \in DOMAIN orders
  /\ s # orders[o].status
  /\ StartCall(o, IF s = "shipped" THEN "Shipped" ELSE s, Absent)

\* variant: the select lets the order move one step along the lifecycle only
SelectStatus_NextOnly(o, s) ==
  LET Rank(x) == CASE x = "pending" -> 0 [] x = "confirmed" -> 1 [] x = "processing" -> 2
                   [] x = "packed" -> 3 [] x = "shipped" -> 4 [] x = "delivered" -> 5
                   [] x = "cancelled" -> 6
  IN /\ screen = "AdminPage"
     /\ o \in DOMAIN orders
     /\ Rank(s) = Rank(orders[o].status) + 1
     /\ StartCall(o, s, Absent)

\* the status <select> of an order card: onChange
SelectStatus(o, s) ==
  /\ screen = "AdminPage"
  /\ o \in DOMAIN orders
  /\ s # orders[o].status
  /\ StartCall(o, s, Absent)

\* the tracking <Input> of an order card: onBlur
BlurTracking(o, value) ==
  /\ screen = "AdminPage"
  /\ o \in DOMAIN orders
  /\ value # orders[o].tracking_number
  /\ StartCall(o, orders[o].status, value)

\* variant: the notification is not in an else branch, it follows a failed write too
UpdateReturns_NoElse(c, ok) ==
  /\ BagIn(c, calls)
  /\ c.pc = "update"
  /\ IF ok THEN
       /\ c.live => BagCardinality(fetches) < MaxFetches
       /\ db' = [db EXCEPT ![c.orderId] = Patched(@, UpdateData(c.status, c.trackingNumber))]
       /\ event' = "written"
       /\ toasts' = <<"Order updated successfully">>
       /\ fetches' = IF c.live THEN IssueFetch(fetches) ELSE fetches
       /\ reads' = {"orders"}
     ELSE
       /\ event' = "writeFailed"
       /\ toasts' = <<"Failed to update order">>
       /\ reads' = {}
       /\ UNCHANGED <<db, fetches>>
  /\ calls' = Put(Take(calls, c), [c EXCEPT !.pc = "notify", !.invoked = @ + 1, !.body = NotificationBody(c)])
  /\ UNCHANGED <<loading, user, isAdmin, path, screen, redirect, orders, issued>>
  /\ UNCHANGED <<catalogVars, authVars, widgetVars>>

\* variant: the customer is notified only when a tracking number was supplied
UpdateReturns_SkipNotify(c, ok) ==
  /\ BagIn(c, calls)
  /\ c.pc = "update"
  /\ IF ok THEN
       /\ c.live => BagCardinality(fetches) < MaxFetches
       /\ db' = [db EXCEPT ![c.orderId] = Patched(@, UpdateData(c.status, c.trackingNumber))]
       /\ event' = "written"
       /\ toasts' = <<"Order updated successfully">>
       /\ fetches' = IF c.live THEN IssueFetch(fetches) ELSE fetches
       /\ reads' = {"orders"}
       /\ calls' = IF Truthy(c.trackingNumber)
                   THEN Put(Take(calls, c), [c EXCEPT !.pc = "notify", !.invoked = @ + 1, !.body = NotificationBody(c)])
                   ELSE Take(calls, c)
     ELSE
       /\ event' = "writeFailed"
       /\ toasts' = <<"Failed to update order">>
       /\ reads' = {}
       /\ calls' = Take(calls, c)
       /\ UNCHANGED <<db, fetches>>
  /\ UNCHANGED <<loading, user, isAdmin, path, screen, redirect, orders, issued>>
  /\ UNCHANGED <<catalogVars, authVars, widgetVars>>

\* variant: the store refuses a write on an order that another call still in
\* flight has already written (a conditional write)
UpdateReturns_Conflict(c, ok) ==
  /\ BagIn(c, calls)
  /\ c.pc = "update"
  /\ IF ok /\ ~(\E d \in BagToSet(calls) : d.orderId = c.orderId /\ d.pc = "notify") THEN
       /\ c.live => BagCardinality(fetches) < MaxFetches
       /\ db' = [db EXCEPT ![c.orderId] = Patched(@, UpdateData(c.status, c.trackingNumber))]
       /\ event' = "written"
       /\ toasts' = <<"Order updated successfully">>
       /\ fetches' = IF c.live THEN IssueFetch(fetches) ELSE fetches
       /\ reads' = {"orders"}
       /\ calls' = Put(Take(calls, c), [c EXCEPT !.pc = "notify", !.invoked = @ + 1, !.body = NotificationBody(c)])
     ELSE
       /\ event' = "writeFailed"
       /\ toasts' = <<"Failed to update order">>
       /\ reads' = {}
       /\ calls' = Take(calls, c)
       /\ UNCHANGED <<db, fetches>>
  /\ UNCHANGED <<loading, user, isAdmin, path, screen, redirect, orders, issued>>
  /\ UNCHANGED <<catalogVars, authVars, widgetVars>>

\* the update resolves; the handler runs on to its second await, or ends
UpdateReturns(c, ok) ==
  /\ BagIn(c, calls)
  /\ c.pc = "update"
  /\ IF ok THEN
       /\ c.live => BagCardinality(fetches) < MaxFetches
       /\ db' = [db EXCEPT ![c.orderId] = Patched(@, UpdateData(c.status, c.trackingNumber))]
       /\ event' = "written"
       /\ toasts' = <<"Order updated successfully">>
       /\ fetches' = IF c.live THEN IssueFetch(fetches) ELSE fetches
       /\ reads' = {"orders"}
       /\ calls' = Put(Take(calls, c), [c EXCEPT !.pc = "notify", !.invoked = @ + 1, !.body = NotificationBody(c)])
     ELSE
       /\ event' = "writeFailed"
       /\ toasts' = <<"Failed to update order">>
       /\ reads' = {}
       /\ calls' = Take(calls, c)
       /\ UNCHANGED <<db, fetches>>
  /\ UNCHANGED <<loading, user, isAdmin, path, screen, redirect, orders, issued>>
  /\ UNCHANGED <<catalogVars, authVars, widgetVars>>

\* variant: a failed notification is invoked again
NotifyReturns_Retry(c, outcome) ==
  /\ BagIn(c, calls)
  /\ c.pc = "notify"
  /\ calls' = IF outcome = "notified" \/ c.invoked > 1
              THEN Take(calls, c)
              ELSE Put(Take(calls, c), [c EXCEPT !.invoked = @ + 1])
  /\ event' = outcome
  /\ toasts' = CASE outcome = "notified" -> <<"Customer notified via email">>
                  [] outcome = "notifyError" -> <<"Order updated but email notification failed">>
                  [] outcome = "notifyThrew" -> <<>>
  /\ UNCHANGED <<loading, user, isAdmin, path, screen, redirect, db, orders, fetches, issued>>
  /\ OrdersOnly

\* variant: a notification is delivered only while it reports the persisted status
NotifyReturns_Superseded(c, outcome) ==
  /\ BagIn(c, calls)
  /\ c.pc = "notify"
  /\ c.body.newStatus = db[c.orderId].status
  /\ calls' = Take(calls, c)
  /\ event' = outcome
  /\ toasts' = CASE outcome = "notified" -> <<"Customer notified via email">>
                  [] outcome = "notifyError" -> <<"Order updated but email notification failed">>
                  [] outcome = "notifyThrew" -> <<>>
  /\ UNCHANGED <<loading, user, isAdmin, path, screen, redirect, db, orders, fetches, issued>>
  /\ OrdersOnly

\* the invocation settles: response without error, response.error, or a throw
NotifyReturns(c, outcome) ==
  /\ BagIn(c, calls)
  /\ c.pc = "notify"
  /\ calls' = Take(calls, c)
  /\ event' = outcome
  /\ toasts' = CASE outcome = "notified" -> <<"Customer notified via email">>
                  [] outcome = "notifyError" -> <<"Order updated but email notification failed">>
                  [] outcome = "notifyThrew" -> <<>>
  /\ UNCHANGED <<loading, user, isAdmin, path, screen, redirect, db, orders, fetches, issued>>
  /\ OrdersOnly

NotifyOutcomes == {"notified", "notifyError", "notifyThrew"}

\* handleUpdateOrderStatus called with arguments the controls did not choose
Transition(o, s, t) ==
  /\ screen = "AdminPage"
  /\ StartCall(o, s, t)

(***************************************************************************)
(* Product catalog: fetchProducts, the add form, handleAddProduct          *)
(***************************************************************************)
\* step of the catalog workflow: the order workflow is left alone
CatalogOnly ==
  /\ UNCHANGED <<loading, user, isAdmin, path, screen, redirect, db, orders, fetches, calls, issued>>
  /\ UNCHANGED <<authVars, widgetVars>>

\* the record store serves the select on products
ProductsRead(f) ==
  /\ BagIn(f, pfetches)
  /\ ~f.read
  /\ pfetches' = Put(Take(pfetches, f), [read |-> TRUE, rows |-> catalog])
  /\ reads' = {}
  /\ UNCHANGED <<catalog, products, newProduct, showAddProduct, inserts>>
  /\ UNCHANGED <<editingProduct, pupdates, edited>>
  /\ CatalogOnly
  /\ Quiet

\* the response arrives: setProducts(data), or the error toast
ProductsReturn(f, ok) ==
  /\ BagIn(f, pfetches)
  /\ f.read
  /\ pfetches' = Take(pfetches, f)
  /\ products' = IF ok THEN f.rows ELSE products
  /\ event' = "none"
  /\ toasts' = IF ok THEN <<>> ELSE <<"Failed to fetch products">>
  /\ reads' = {}
  /\ UNCHANGED <<catalog, newProduct, showAddProduct, inserts>>
  /\ UNCHANGED <<editingProduct, pupdates, edited>>
  /\ CatalogOnly

\* the "Add Product" button, and the X of the form
ShowAddProduct(b) ==
  /\ screen = "AdminPage"
  /\ showAddProduct # b
  /\ showAddProduct' = b
  /\ reads' = {}
  /\ UNCHANGED <<catalog, products, newProduct, pfetches, inserts>>
  /\ UNCHANGED <<editingProduct, pupdates, edited>>
  /\ CatalogOnly
  /\ Quiet

\* the Name field: onChange
TypeName(text) ==
  /\ screen = "AdminPage"
  /\ showAddProduct
  /\ text # newProduct.name
  /\ newProduct' = [newProduct EXCEPT !.name = text]
  /\ reads' = {}
  /\ UNCHANGED <<catalog, products, showAddProduct, pfetches, inserts>>
  /\ UNCHANGED <<editingProduct, pupdates, edited>>
  /\ CatalogOnly
  /\ Quiet

\* the Price field: onChange
TypePrice(text) ==
  /\ screen = "AdminPage"
  /\ showAddProduct
  /\ parseFloat(text) # newProduct.price
  /\ newProduct' = [newProduct EXCEPT !.price = parseFloat(text)]
  /\ reads' = {}
  /\ UNCHANGED <<catalog, products, showAddProduct, pfetches, inserts>>
  /\ UNCHANGED <<editingProduct, pupdates, edited>>
  /\ CatalogOnly
  /\ Quiet

\* JavaScript !x for the two validated fields
NotString(x) == x = ""
NotNumber(x) == x.nan \/ x.n = 0

\* variant: the form is cleared before its contents are validated
handleAddProduct_ClearsFirst ==
  /\ screen = "AdminPage"
  /\ showAddProduct
  /\ IF NotString(newProduct.name) \/ NotNumber(newProduct.price) THEN
       /\ event' = "invalid"
       /\ toasts' = <<"Please fill in required fields">>
       /\ newProduct' = EmptyProduct
       /\ UNCHANGED inserts
     ELSE
       /\ Len(catalog) + BagCardinality(inserts) < MaxProducts
       /\ inserts' = Put(inserts, [row |-> newProduct, live |-> TRUE])
       /\ event' = "insertIssued"
       /\ toasts' = <<>>
       /\ UNCHANGED newProduct
  /\ reads' = {}
  /\ UNCHANGED <<catalog, products, showAddProduct, pfetches>>
  /\ UNCHANGED <<editingProduct, pupdates, edited>>
  /\ CatalogOnly

\* the form's submit button: validation, then the insert is issued
handleAddProduct ==
  /\ screen = "AdminPage"
  /\ showAddProduct
  /\ IF NotString(newProduct.name) \/ NotNumber(newProduct.price) THEN
       /\ event' = "invalid"
       /\ toasts' = <<"Please fill in required fields">>
       /\ UNCHANGED inserts
     ELSE
       /\ Len(catalog) + BagCardinality(inserts) < MaxProducts
       /\ inserts' = Put(inserts, [row |-> newProduct, live |-> TRUE])
       /\ event' = "insertIssued"
       /\ toasts' = <<>>
  /\ reads' = {}
  /\ UNCHANGED <<catalog, products, newProduct, showAddProduct, pfetches>>
  /\ UNCHANGED <<editingProduct, pupdates, edited>>
  /\ CatalogOnly

\* the insert resolves; on success the form is closed and reset and the list refetched
InsertReturns(i, ok) ==
  /\ BagIn(i, inserts)
  /\ inserts' = Take(inserts, i)
  /\ IF ok THEN
       /\ i.live => BagCardinality(pfetches) < MaxFetches
       /\ catalog' = <<[id |-> Len(catalog) + 1, name |-> i.row.name, price |-> i.row.price]>> \o catalog
       /\ event' = "inserted"
       /\ toasts' = <<"Product added successfully">>
       /\ reads' = {"products"}
       /\ IF i.live THEN
            /\ showAddProduct' = FALSE
            /\ newProduct' = EmptyProduct
            /\ pfetches' = IssueFetch(pfetches)
          ELSE UNCHANGED <<showAddProduct, newProduct, pfetches>>
     ELSE
       /\ event' = "insertFailed"
       /\ toasts' = <<"Failed to add product">>
       /\ reads' = {}
       /\ UNCHANGED <<catalog, showAddProduct, newProduct, pfetches>>
  /\ UNCHANGED products
  /\ UNCHANGED <<editingProduct, pupdates, edited>>
  /\ CatalogOnly

(***************************************************************************)
(* Product catalog: the row form and handleUpdateProduct                   *)
(***************************************************************************)
\* the row of the displayed list that the row form belongs to, if any
Edited == {k \in DOMAIN products : editingProduct # NoEdit /\ products[k].id = editingProduct.row.id}

\* the pencil button of a row: setEditingProduct(product)
StartEdit(k) ==
  /\ screen = "AdminPage"
  /\ k \in DOMAIN products
  /\ k \notin Edited
  /\ editingProduct' = [row |-> products[k], from |-> products[k]]
  /\ reads' = {}
  /\ UNCHANGED <<catalog, products, newProduct, showAddProduct, pfetches, inserts, pupdates, edited>>
  /\ CatalogOnly
  /\ Quiet

\* the Cancel button of the row form: setEditingProduct(null)
CancelEdit ==
  /\ screen = "AdminPage"
  /\ Edited # {}
  /\ editingProduct' = NoEdit
  /\ reads' = {}
  /\ UNCHANGED <<catalog, products, newProduct, showAddProduct, pfetches, inserts, pupdates, edited>>
  /\ CatalogOnly
  /\ Quiet

\* the Name field of the row form: onChange
EditName(text) ==
  /\ screen = "AdminPage"
  /\ Edited # {}
  /\ text # editingProduct.row.name
  /\ editingProduct' = [editingProduct EXCEPT !.row.name = text]
  /\ reads' = {}
  /\ UNCHANGED <<catalog, products, newProduct, showAddProduct, pfetches, inserts, pupdates, edited>>
  /\ CatalogOnly
  /\ Quiet

\* the Price field of the row form: onChange
EditPrice(text) ==
  /\ screen = "AdminPage"
  /\ Edited # {}
  /\ parseFloat(text) # editingProduct.row.price
  /\ editingProduct' = [editingProduct EXCEPT !.row.price = parseFloat(text)]
  /\ reads' = {}
  /\ UNCHANGED <<catalog, products, newProduct, showAddProduct, pfetches, inserts, pupdates, edited>>
  /\ CatalogOnly
  /\ Quiet

\* the object passed to update(): every field of editingProduct
ProductPatch(e) == [name |-> e.row.name, price |-> e.row.price]

\* the Save button of the row form: the update is issued
handleUpdateProduct ==
  /\ screen = "AdminPage"
  /\ Edited # {}
  /\ edited < MaxEdits
  /\ edited' = edited + 1
  /\ pupdates' = Put(pupdates, [id |-> editingProduct.row.id, patch |-> ProductPatch(editingProduct),
                                from |-> editingProduct.from, live |-> TRUE])
  /\ event' = "updateIssued"
  /\ toasts' = <<>>
  /\ reads' = {}
  /\ UNCHANGED <<catalog, products, newProduct, showAddProduct, pfetches, inserts, editingProduct>>
  /\ CatalogOnly

\* the update resolves; on success the row form is closed and the list refetched
UpdateProductReturns(u, ok) ==
  /\ BagIn(u, pupdates)
  /\ pupdates' = Take(pupdates, u)
  /\ IF ok THEN
       /\ u.live => BagCardinality(pfetches) < MaxFetches
       /\ catalog' = [k \in DOMAIN catalog |->
                        IF catalog[k].id = u.id THEN Patched(catalog[k], u.patch) ELSE catalog[k]]
       /\ event' = "productUpdated"
       /\ toasts' = <<"Product updated successfully">>
       /\ reads' = {"products"}
       /\ IF u.live THEN
            /\ editingProduct' = NoEdit
            /\ pfetches' = IssueFetch(pfetches)
          ELSE UNCHANGED <<editingProduct, pfetches>>
     ELSE
       /\ event' = "productUpdateFailed"
       /\ toasts' = <<"Failed to update product">>
       /\ reads' = {}
       /\ UNCHANGED <<catalog, editingProduct, pfetches>>
  /\ UNCHANGED <<products, newProduct, showAddProduct, inserts, edited>>
  /\ CatalogOnly

(***************************************************************************)
(* GoogleTranslateBar                                                      *)
(***************************************************************************)
\* no effect run has set the callback or the listener yet
NoClosure == -1
\* the callback still is the initTranslate of an instance that was unmounted
Stale == -2

\* a step of the translation bar: everything else is left alone
TranslateOnly ==
  /\ Quiet
  /\ reads' = {}
  /\ UNCHANGED <<loading, user, isAdmin, path, screen, redirect, db, orders, fetches, calls, issued>>
  /\ UNCHANGED <<catalogVars, authVars, weatherVars>>

\* variant: a retry is still scheduled when retryCount is 5
initTranslate_OneMore(rc, g, built) ==
  IF g = "ready" THEN
    /\ isLoaded' = (built \/ isLoaded)
    /\ timers' = timers
  ELSE IF rc <= 5 THEN
    /\ timers' = timers + 1
    /\ isLoaded' = isLoaded
  ELSE
    /\ UNCHANGED <<isLoaded, timers>>

\* initTranslate as closed over retryCount = rc, run while window.google is g;
\* built tells whether the TranslateElement constructor returned (it may throw)
initTranslate(rc, g, built) ==
  IF g = "ready" THEN
    /\ isLoaded' = (built \/ isLoaded)
    /\ timers' = timers
  ELSE IF rc < 5 THEN
    /\ timers' = timers + 1
    /\ isLoaded' = isLoaded
  ELSE
    /\ UNCHANGED <<isLoaded, timers>>

\* loadScript as closed over retryCount = rc
loadScript(rc, built) ==
  IF script # "none" THEN
    /\ IF google # "absent" THEN initTranslate(rc, google, built)
       ELSE UNCHANGED <<isLoaded, timers>>
    /\ script' = script
  ELSE
    /\ script' = "loading"
    /\ UNCHANGED <<isLoaded, timers>>

\* the effect runs (after the mount, or after retryCount changed): the cleanup
\* of the previous run removes its load listener, the callback is replaced
RunEffect(built) ==
  /\ effect
  /\ effect' = FALSE
  /\ init' = retryCount
  /\ IF readyState = "complete" THEN
       /\ loadScript(retryCount, built)
       /\ listener' = NoClosure
     ELSE
       /\ listener' = retryCount
       /\ UNCHANGED <<script, isLoaded, timers>>
  /\ UNCHANGED <<google, readyState, retryCount, mounts>>
  /\ TranslateOnly

\* the window's load event
DocumentLoads(built) ==
  /\ readyState = "loading"
  /\ readyState' = "complete"
  /\ IF listener # NoClosure THEN loadScript(listener, built)
     ELSE UNCHANGED <<script, isLoaded, timers>>
  /\ UNCHANGED <<google, listener, retryCount, effect, init, mounts>>
  /\ TranslateOnly

\* element.js is evaluated: first the google.translate namespace appears, then
\* TranslateElement is defined and the script calls window.googleTranslateElementInit
ScriptProgress(built) ==
  /\ script \in {"loading", "orphaned"}
  /\ IF google = "absent" THEN
       /\ google' = "namespace"
       /\ UNCHANGED <<script, isLoaded, timers>>
     ELSE
       /\ google' = "ready"
       /\ script' = "loaded"
       /\ IF init \notin {NoClosure, Stale} THEN initTranslate(init, "ready", built)
          ELSE UNCHANGED <<isLoaded, timers>>
  /\ UNCHANGED <<readyState, listener, retryCount, effect, init, mounts>>
  /\ TranslateOnly

\* script.onerror: the script could not be fetched
ScriptFails ==
  /\ script \in {"loading", "orphaned"}
  /\ google = "absent"
  /\ script' = "failed"
  /\ isLoaded' = IF script = "loading" THEN FALSE ELSE isLoaded
  /\ UNCHANGED <<google, readyState, listener, retryCount, effect, init, timers, mounts>>
  /\ TranslateOnly

\* a retry timer expires: setRetryCount(prev => prev + 1), the effect is due again
TimerFires ==
  /\ timers > 0
  /\ timers' = timers - 1
  /\ retryCount' = retryCount + 1
  /\ effect' = TRUE
  /\ UNCHANGED <<google, script, readyState, listener, isLoaded, init, mounts>>
  /\ TranslateOnly

\* the component is unmounted and mounted again: a new instance with initial
\* state; the script element and window.google stay, the timers and handlers
\* of the old instance no longer reach any state
Remount ==
  /\ mounts < MaxMounts
  /\ mounts' = mounts + 1
  /\ retryCount' = 0
  /\ isLoaded' = FALSE
  /\ effect' = TRUE
  /\ timers' = 0
  /\ listener' = NoClosure
  /\ init' = IF init = NoClosure THEN NoClosure ELSE Stale
  /\ script' = IF script = "loading" THEN "orphaned" ELSE script
  /\ UNCHANGED <<google, readyState>>
  /\ TranslateOnly

(***************************************************************************)
(* WeatherAlerts                                                           *)
(***************************************************************************)
\* the texts typed into the city field
CityInputs == {"", " ", "Pune "}

\* String.prototype.trim on those texts
trim(text) == IF text = "Pune " THEN "Pune" ELSE IF text = " " THEN "" ELSE text

\* the request body of a fetch by coordinates carries no city
ByCoords == "undefined"

\* the outcomes of supabase.functions.invoke('get-weather'): data, data marked
\* as fallback, neither data nor error, an error, a rejection
WeatherOutcomes == {"data", "fallback", "empty", "error", "throw"}

\* a step of the weather widget: everything else is left alone
WeatherOnly ==
  /\ reads' = {}
  /\ UNCHANGED <<loading, user, isAdmin, path, screen, redirect, db, orders, fetches, calls, issued>>
  /\ UNCHANGED <<catalogVars, authVars, translateVars>>

\* fetchWeather up to its await: setIsLoading(true) and the request
fetchWeather(city) ==
  /\ fetched < MaxWeather
  /\ fetched' = fetched + 1
  /\ isLoading' = TRUE
  /\ requests' = Put(requests, [city |-> city])

\* the mount effect's getCurrentPosition answers: a position or an error
GeoResolves(found) ==
  /\ geo = "pending"
  /\ geo' = "done"
  /\ fetchWeather(IF found THEN ByCoords ELSE "Nagpur")
  /\ UNCHANGED <<cityInput, currentCity>>
  /\ Quiet
  /\ WeatherOnly

\* the city field's onChange
TypeCity(text) ==
  /\ text # cityInput
  /\ cityInput' = text
  /\ UNCHANGED <<geo, isLoading, requests, currentCity, fetched>>
  /\ Quiet
  /\ WeatherOnly

\* the search form is submitted
handleCitySearch ==
  /\ trim(cityInput) # ""
  /\ fetchWeather(trim(cityInput))
  /\ cityInput' = ""
  /\ UNCHANGED <<geo, currentCity>>
  /\ Quiet
  /\ WeatherOnly

\* the refresh button, disabled while isLoading
handleRefresh ==
  /\ ~isLoading
  /\ fetchWeather(IF currentCity # "" THEN currentCity ELSE "Nagpur")
  /\ UNCHANGED <<geo, cityInput, currentCity>>
  /\ Quiet
  /\ WeatherOnly

\* data.location || city || '' for the answer to request w
Located(w) == IF w.city = ByCoords THEN "Wardha" ELSE w.city

\* the rest of fetchWeather, once the request of w is answered with outcome r
WeatherReturns(w, r) ==
  /\ BagIn(w, requests)
  /\ requests' = Take(requests, w)
  /\ currentCity' = IF r \in {"data", "fallback"} THEN Located(w) ELSE currentCity
  /\ toasts' = IF r = "data" THEN <<"Weather updated">>
               ELSE IF r = "error" THEN <<"Failed to fetch weather data">>
               ELSE <<>>
  /\ event' = "weather"
  /\ isLoading' = FALSE
  /\ UNCHANGED <<geo, cityInput, fetched>>
  /\ WeatherOnly

(***************************************************************************)
(* Specification                                                           *)
(***************************************************************************)

\* the state after construction, over a products table holding the given rows
Start(rows) ==
  /\ loading = TRUE
  /\ user = NoUser
  /\ isAdmin = FALSE
  /\ path \in Paths
  /\ screen = Render(path, NoUser, FALSE, TRUE, "none").screen
  /\ redirect = "none"
  /\ db = [o \in OrderIds |-> [status |-> "pending", tracking_number |-> Null, total_amount |-> 1500]]
  /\ orders = NoRows
  /\ fetches = EmptyBag
  /\ calls = EmptyBag
  /\ issued = 0
  /\ event = "none"
  /\ toasts = <<>>
  /\ reads = {}
  /\ catalog = rows
  /\ products = <<>>
  /\ newProduct = EmptyProduct
  /\ showAddProduct = FALSE
  /\ pfetches = EmptyBag
  /\ inserts = EmptyBag
  /\ editingProduct = NoEdit
  /\ pupdates = EmptyBag
  /\ edited = 0
  /\ attempts = EmptyBag
  /\ submitting = FALSE
  /\ errors = {}
  /\ attempted = 0
  /\ google = "absent"
  /\ script = "none"
  /\ readyState = "loading"
  /\ listener = NoClosure
  /\ retryCount = 0
  /\ isLoaded = FALSE
  /\ effect = TRUE
  /\ init = NoClosure
  /\ timers = 0
  /\ mounts = 1
  /\ geo = "pending"
  /\ isLoading = FALSE
  /\ requests = EmptyBag
  /\ cityInput = ""
  /\ currentCity = ""
  /\ fetched = 0

Init == Start(<<>>)

\* a store that already holds one product
InitStocked == Start(<<[id |-> 1, name |-> "Urea", price |-> Num(250)]>>)

\* The order workflow and the catalog workflow share only the session and the
\* mounted page; each is explored with the other's controls left untouched.
Next ==
  \/ \E u \in Accounts \cup {NoUser} : SessionLoaded(u)
  \/ SignOut
  \/ \E p \in Paths : Navigate(p)
  \/ \E u \in Accounts : SignIn(u)
  \/ \E f \in BagToSet(fetches) : FetchRead(f)
  \/ \E f \in BagToSet(fetches), ok \in BOOLEAN : FetchReturns(f, ok)
  \/ \E o \in OrderIds, s \in statusOptions : SelectStatus(o, s)
  \/ \E o \in OrderIds, v \in TrackingInputs : BlurTracking(o, v)
  \/ \E c \in BagToSet(calls), ok \in BOOLEAN : UpdateReturns(c, ok)
  \/ \E c \in BagToSet(calls), r \in NotifyOutcomes : NotifyReturns(c, r)

Spec == Init /\ [][Next]_vars

\* the order workflow of one administrator who stays on the page once it is shown
NextOnPage ==
  \/ \E u \in Accounts \cup {NoUser} : SessionLoaded(u)
  \/ \E f \in BagToSet(fetches) : FetchRead(f)
  \/ \E f \in BagToSet(fetches), ok \in BOOLEAN : FetchReturns(f, ok)
  \/ \E o \in OrderIds, s \in statusOptions : SelectStatus(o, s)
  \/ \E o \in OrderIds, v \in TrackingInputs : BlurTracking(o, v)
  \/ \E c \in BagToSet(calls), ok \in BOOLEAN : UpdateReturns(c, ok)
  \/ \E c \in BagToSet(calls), r \in NotifyOutcomes : NotifyReturns(c, r)

SpecOnPage == Init /\ [][NextOnPage]_vars

\* the catalog workflow of the administrator page
NextCatalog ==
  \/ \E u \in Accounts \cup {NoUser} : SessionLoaded(u)
  \/ SignOut
  \/ \E p \in Paths : Navigate(p)
  \/ \E u \in Accounts : SignIn(u)
  \/ \E f \in BagToSet(pfetches) : ProductsRead(f)
  \/ \E f \in BagToSet(pfetches), ok \in BOOLEAN : ProductsReturn(f, ok)
  \/ \E b \in BOOLEAN : ShowAddProduct(b)
  \/ \E text \in ProductNames : TypeName(text)
  \/ \E text \in PriceTexts : TypePrice(text)
  \/ handleAddProduct
  \/ \E i \in BagToSet(inserts), ok \in BOOLEAN : InsertReturns(i, ok)

SpecCatalog == Init /\ [][NextCatalog]_vars

\* the row form of the catalog, for one administrator who stays on the page
NextEdit ==
  \/ \E u \in Accounts \cup {NoUser} : SessionLoaded(u)
  \/ \E f \in BagToSet(pfetches) : ProductsRead(f)
  \/ \E f \in BagToSet(pfetches), ok \in BOOLEAN : ProductsReturn(f, ok)
  \/ \E k \in DOMAIN products : StartEdit(k)
  \/ CancelEdit
  \/ \E text \in ProductNames : EditName(text)
  \/ \E text \in PriceTexts : EditPrice(text)
  \/ handleUpdateProduct
  \/ \E u \in BagToSet(pupdates), ok \in BOOLEAN : UpdateProductReturns(u, ok)

SpecEdit == InitStocked /\ [][NextEdit]_vars

\* the order workflow with handleUpdateOrderStatus called directly
NextHandler ==
  \/ \E u \in Accounts \cup {NoUser} : SessionLoaded(u)
  \/ SignOut
  \/ \E p \in Paths : Navigate(p)
  \/ \E u \in Accounts : SignIn(u)
  \/ \E f \in BagToSet(fetches) : FetchRead(f)
  \/ \E f \in BagToSet(fetches), ok \in BOOLEAN : FetchReturns(f, ok)
  \/ \E o \in OrderIds, s \in HandlerTokens, t \in TrackingInputs \cup {Absent} : Transition(o, s, t)
  \/ \E c \in BagToSet(calls), ok \in BOOLEAN : UpdateReturns(c, ok)
  \/ \E c \in BagToSet(calls), r \in NotifyOutcomes : NotifyReturns(c, r)

SpecHandler == Init /\ [][NextHandler]_vars

\* the sign-in form, with the call to signIn / signUp and the session store's
\* publication of the identity as separate steps
NextAuth ==
  \/ \E u \in Accounts \cup {NoUser} : SessionLoaded(u)
  \/ SignOut
  \/ \E p \in Paths : Navigate(p)
  \/ \E isSignup \in BOOLEAN, formData \in Forms : handleSubmit(isSignup, formData)
  \/ \E a \in BagToSet(attempts) : SessionBound(a)
  \/ \E a \in BagToSet(attempts), r \in {"ok", "error", "throw"} : SubmitReturns(a, r)

SpecAuth == Init /\ [][NextAuth]_vars

\* the translation bar
NextTranslate ==
  \/ \E built \in BOOLEAN : RunEffect(built)
  \/ \E built \in BOOLEAN : DocumentLoads(built)
  \/ \E built \in BOOLEAN : ScriptProgress(built)
  \/ ScriptFails
  \/ TimerFires
  \/ Remount

SpecTranslate == Init /\ [][NextTranslate]_vars

\* the weather widget
NextWeather ==
  \/ \E found \in BOOLEAN : GeoResolves(found)
  \/ \E text \in CityInputs : TypeCity(text)
  \/ handleCitySearch
  \/ handleRefresh
  \/ \E w \in BagToSet(requests), r \in WeatherOutcomes : WeatherReturns(w, r)

SpecWeather == Init /\ [][NextWeather]_vars

(***************************************************************************)
(* Properties                                                              *)
(***************************************************************************)
Identities == Accounts \cup {NoUser}
GuardedPaths == ProtectedPaths \cup {"/admin"}
Administrator == ~loading /\ user # NoUser /\ isAdmin

InFlight == BagToSet(calls)
Notifying(bag) == [c \in {x \in BagToSet(bag) : x.pc = "notify"} |-> bag[c]]
Attempts(bag) == BagCardinality(Notifying(bag))
NotificationFailed == event \in {"notifyError", "notifyThrew"}
Warning == "Order updated but email notification failed"
Shown(msg) == \E i \in DOMAIN toasts : toasts[i] = msg

\* C1: both route guards answer Pending (the spinner) exactly when the session is
\* loading, whatever user and isAdmin are, and no guard redirects while loading.
C1_PendingIffLoading ==
  /\ \A u \in Identities, a \in BOOLEAN :
       /\ (ProtectedRoute(u, loading) = Pending) <=> loading
       /\ (AdminRoute(u, a, loading) = Pending) <=> loading
  /\ path \in GuardedPaths => ((screen = "Spinner") <=> loading)
  /\ loading => redirect = "none"

C1_Witness == loading /\ path = "/admin" /\ screen = "Spinner"

\* C2: once the session has loaded, the Administrator guard allows exactly the
\* bound accounts whose role is administrator; a signed-in customer is sent
\* home, never shown a reduced admin view.
C2_AdminAllowsIffAdministrator ==
  /\ ~loading => \A u \in Identities, a \in BOOLEAN :
       (AdminRoute(u, a, loading) = Allow) <=> (u # NoUser /\ a)
  /\ (~loading /\ path = "/admin") => (user # NoUser /\ isAdmin /\ screen = "AdminPage")
  /\ redirect = "AdminRoute" => (~loading /\ (user = NoUser \/ ~isAdmin) /\ path = "/" /\ screen = "/")

C2_Witness == redirect = "AdminRoute" /\ user = "asha" /\ ~isAdmin /\ path = "/"

\* C3: once the session has loaded, the Authenticated guard allows exactly when
\* an account is bound, on each of /history, /cart, /checkout and /orders.
C3_ProtectedAllowsIffUser ==
  /\ ~loading => \A u \in Identities : (ProtectedRoute(u, loading) = Allow) <=> (u # NoUser)
  /\ \A p \in ProtectedPaths : (~loading /\ path = p) => (user # NoUser /\ screen = p)
  /\ redirect = "ProtectedRoute" => (~loading /\ user = NoUser /\ path = "/auth")

C3_Witness == ~loading /\ user = "asha" /\ path = "/checkout" /\ screen = "/checkout"

\* C4: a transition is rejected at the gate for every identity that is not an
\* administrator: AdminPage is rendered, and an update of the orders table is
\* issued, only while the current identity passes Administrator authorization.
C4_NoUpdateUnlessAdministrator ==
  [][ /\ issued' # issued => Administrator
      /\ screen' \in {"AdminPage", "AccessDenied"} => Administrator'
    ]_vars

C4_Witness == \E c \in InFlight : c.pc = "update" /\ Administrator

\* C5: a transition whose write fails leaves the orders table as it was, ends
\* without any notification attempt, and shows the failure toast.
C5_FailedWriteAborts ==
  [][ event' = "writeFailed" =>
        /\ db' = db
        /\ Attempts(calls') = Attempts(calls)
        /\ BagCardinality(calls') = BagCardinality(calls) - 1
        /\ toasts' = <<"Failed to update order">>
    ]_vars

C5_Witness == event = "writeFailed" /\ issued = 1 /\ calls = EmptyBag

\* C6: each call whose write succeeds makes exactly one notification attempt:
\* it is made when the write returns, and a call never makes a second one.
C6_OneNotificationPerWrite ==
  [][ /\ event' = "written" =>
            /\ Attempts(calls') = Attempts(calls) + 1
            /\ BagCardinality(calls') = BagCardinality(calls)
      /\ event' # "written" => Attempts(calls') <= Attempts(calls)
      /\ \A c \in BagToSet(calls') : c.invoked = (IF c.pc = "notify" THEN 1 ELSE 0)
    ]_vars

C6_Witness == event = "written" /\ \E c \in InFlight : c.pc = "notify" /\ c.invoked = 1

\* C7: a notification attempt is made only in the step in which the call's write
\* has returned success, so the orders table already shows what the call wrote.
C7_WriteBeforeNotification ==
  [][ Attempts(calls') > Attempts(calls) =>
        \E c \in InFlight :
          /\ c.pc = "update"
          /\ event' = "written"
          /\ calls' = Put(Take(calls, c), [c EXCEPT !.pc = "notify", !.invoked = 1, !.body = NotificationBody(c)])
          /\ db'[c.orderId].status = c.status
          /\ Truthy(c.trackingNumber) => db'[c.orderId].tracking_number = c.trackingNumber
    ]_vars

C7_Witness ==
  \E c \in InFlight : c.pc = "notify" /\ c.status = "shipped" /\ db[c.orderId].status = "shipped"

\* C8: a failed notification changes nothing in the orders table, and the
\* workflow neither writes again nor invokes the notification again.
C8_NotificationFailureIsolated ==
  [][ NotificationFailed' =>
        /\ db' = db
        /\ BagCardinality(calls') = BagCardinality(calls) - 1
        /\ issued' = issued
        /\ fetches' = fetches
    ]_vars

C8_Witness == event = "notifyError" /\ db[7].status = "shipped" /\ calls = EmptyBag

\* C9: every notification failure, an error result or a thrown exception, is
\* shown to the administrator as the warning that the order was updated but the
\* message was not delivered.
C9_FailureAlwaysWarned == NotificationFailed => Shown(Warning)

\* C10: a persisted tracking number, once non-empty, is never reset to empty;
\* a call with an absent or empty tracking number sends a patch without the field.
C10_TrackingMonotonic ==
  [][ /\ \A o \in OrderIds :
           db[o].tracking_number \notin {Null, ""} => db'[o].tracking_number \notin {Null, ""}
      /\ \A c \in InFlight :
           ~Truthy(c.trackingNumber) => DOMAIN UpdateData(c.status, c.trackingNumber) = {"status"}
    ]_vars

C10_Witness ==
  /\ event = "written"
  /\ db[7].tracking_number = "T123"
  /\ \E c \in InFlight : c.pc = "notify" /\ ~Truthy(c.trackingNumber) /\ BagCardinality(calls) = 1

\* the call whose write is applied by this step
Commits(c) ==
  /\ c \in InFlight
  /\ c.pc = "update"
  /\ event' = "written"
  /\ calls' = Put(Take(calls, c), [c EXCEPT !.pc = "notify", !.invoked = 1, !.body = NotificationBody(c)])

\* C11: no transition call, successful or failed, status change or tracking
\* assignment, changes an order's total_amount.
C11_TotalAmountUnchanged ==
  [][ \A o \in OrderIds : db'[o].total_amount = db[o].total_amount ]_vars

C11_Witness ==
  /\ event = "written"
  /\ db[7].status = "shipped"
  /\ db[7].tracking_number = "T123"
  /\ db[7].total_amount = 1500

\* the call c whose write is applied by this step, and its record n afterwards
CommitsAs(c, n) ==
  /\ c \in InFlight
  /\ c.pc = "update"
  /\ event' = "written"
  /\ n.pc = "notify"
  /\ calls' = Put(Take(calls, c), n)

Terminal == {"delivered", "cancelled"}

\* C12: a call that only assigns a tracking number (made from the tracking
\* field, which passes a string) leaves the persisted status as the store held
\* it immediately before the call's write.
C12_TrackingOnlyKeepsStatus ==
  [][ \A c \in InFlight :
        (Commits(c) /\ c.trackingNumber # Absent) =>
          db'[c.orderId].status = db[c.orderId].status
    ]_vars

\* C13: once an order's persisted status is delivered or cancelled, no
\* transition call changes it.
C13_TerminalStatusesStay ==
  [][ \A o \in OrderIds : db[o].status \in Terminal => db'[o].status = db[o].status ]_vars

\* C13 (as amended): the code enforces no terminal state. A persisted
\* delivered or cancelled status changes only when a transition call's write
\* succeeds, and it becomes the status that call carried, one of the seven.
C13_TerminalLeftOnlyByWrite ==
  [][ \A o \in OrderIds :
        (db[o].status \in Terminal /\ db'[o].status # db[o].status) =>
          \E c \in InFlight :
            /\ Commits(c)
            /\ c.orderId = o
            /\ db'[o].status = c.status
            /\ c.status \in statusOptions
    ]_vars

\* both calls have written, "delivered" first and "pending" over it
C13_Witness ==
  /\ db[7].status = "pending"
  /\ event = "written"
  /\ \E c, d \in InFlight :
       /\ c.body.newStatus = "delivered"
       /\ d.body.newStatus = "pending"

\* C15: every order's persisted status is one of the seven defined statuses,
\* whatever transition calls the admin controls have made.
C15_StatusInDefinedSet == \A o \in OrderIds : db[o].status \in statusOptions

C15_Witness == event = "written" /\ db[7].status = "cancelled" /\ issued = 2

\* C16: when a call's write succeeds, the order record shows the status and the
\* tracking number the call carried, and the notification invoked for it
\* carries the same order id, status and tracking number.
C16_NotifiedWhatWasWritten ==
  [][ \A c \in InFlight : \A n \in BagToSet(calls') :
        CommitsAs(c, n) =>
          LET row == db'[c.orderId] IN
            /\ row.status = c.status
            /\ row.tracking_number =
                 (IF Truthy(c.trackingNumber) THEN c.trackingNumber ELSE db[c.orderId].tracking_number)
            /\ n.body = [orderId |-> c.orderId, newStatus |-> row.status,
                         trackingNumber |-> IF Truthy(c.trackingNumber)
                                            THEN row.tracking_number ELSE Absent]
    ]_vars

C16_Witness ==
  /\ event = "written"
  /\ db[7].status = "shipped"
  /\ db[7].tracking_number = "T123"
  /\ \E c \in InFlight :
       c.body = [orderId |-> 7, newStatus |-> "shipped", trackingNumber |-> "T123"]

\* C17: a denied caller is sent to the fallback of the guard that denied
\* (/auth from the Authenticated guard, / from the Administrator guard) and
\* lands on that page; the "Access Denied" view of AdminPage is never shown.
C17_DeniedMeansRedirected ==
  /\ screen # "AccessDenied"
  /\ redirect = "ProtectedRoute" => (path = "/auth" /\ screen = "AuthPage")
  /\ redirect = "AdminRoute" => (path = "/" /\ screen = "/")
  /\ (~loading /\ path \in ProtectedPaths) => user # NoUser
  /\ (~loading /\ path = "/admin") => (user # NoUser /\ isAdmin)

C17_Witness == redirect = "ProtectedRoute" /\ path = "/auth" /\ screen = "AuthPage"

\* C14: a transition call whose status token is not one of the seven defined
\* statuses is rejected before anything happens: no call with such a token has
\* a write or a notification outstanding, and no such token is persisted.
C14_UnrecognizedTokenRejected ==
  /\ \A c \in InFlight : c.status \in statusOptions
  /\ \A o \in OrderIds : db[o].status \in statusOptions

\* C18: no select on the admin-only tables (fetchProducts, fetchOrders) is
\* issued unless the identity of the session is an administrator.
C18_ReadsOnlyByAdministrator == reads # {} => Administrator

\* C19: handleAddProduct issues an insert only for a product whose name is
\* non-empty and whose price is a number strictly above zero.
C19_InsertOnlyValidProduct ==
  /\ \A i \in BagToSet(inserts) :
       i.row.name # "" /\ ~i.row.price.nan /\ i.row.price.n > 0
  /\ \A k \in DOMAIN catalog :
       catalog[k].name # "" /\ ~catalog[k].price.nan /\ catalog[k].price.n > 0

\* C20: when handleAddProduct rejects its input, the step issues no insert and
\* no select, and leaves the table, the product list and the form as they were.
C20_InvalidReturnsEarly ==
  [][ event' = "invalid" =>
        /\ inserts' = inserts
        /\ pfetches' = pfetches
        /\ reads' = {}
        /\ catalog' = catalog
        /\ products' = products
        /\ newProduct' = newProduct
        /\ showAddProduct' = showAddProduct
    ]_vars

C20_Witness ==
  /\ event = "invalid"
  /\ newProduct = [name |-> "Urea", price |-> NaN]
  /\ showAddProduct
  /\ inserts = EmptyBag

\* C24: no adjacency check is applied. While the page is shown to an
\* administrator, every status other than the displayed one can be picked in
\* the select and the tracking field can resubmit the displayed one; a pending
\* write can be accepted and then sets the call's status, whatever status the
\* store holds.
C24_NoAdjacencyCheck ==
  /\ (screen = "AdminPage" /\ issued < MaxCalls) =>
       \A o \in DOMAIN orders :
         /\ \A s \in statusOptions \ {orders[o].status} : ENABLED SelectStatus(o, s)
         /\ \A v \in TrackingInputs \ {orders[o].tracking_number} : ENABLED BlurTracking(o, v)
  /\ \A c \in InFlight :
       (c.pc = "update" /\ (c.live => BagCardinality(fetches) < MaxFetches)) =>
         ENABLED (UpdateReturns(c, TRUE) /\ db'[c.orderId].status = c.status)

\* a backward move over three steps: "shipped" was written, then "confirmed"
C24_Witness ==
  /\ db[7].status = "confirmed"
  /\ event = "written"
  /\ Administrator
  /\ \E c, d \in InFlight :
       /\ c.body.newStatus = "shipped"
       /\ d.body.newStatus = "confirmed"

\* C25: concurrent calls on one order are not serialized. While one call's
\* write has been applied and its handler is still running, the pending write
\* of another call on the same order is accepted as well and its status
\* becomes the persisted one: the last write to reach the store wins.
C25_ConcurrentWritesBothAccepted ==
  \A c, d \in InFlight :
    ( /\ c.pc = "notify"
      /\ d.pc = "update"
      /\ d.orderId = c.orderId
      /\ d.live => BagCardinality(fetches) < MaxFetches ) =>
      ENABLED ( /\ UpdateReturns(d, TRUE)
                /\ event' = "written"
                /\ db'[d.orderId].status = d.status )

\* the step just taken applied one call's write while the other was pending
C25_Witness ==
  /\ event = "written"
  /\ BagCardinality(calls) = 2
  /\ \E c, d \in InFlight :
       /\ c.pc = "notify" /\ c.status = "shipped" /\ db[7].status = "shipped"
       /\ d.pc = "update" /\ d.status = "cancelled" /\ d.orderId = c.orderId

\* C26: notifications of different calls on one order are not ordered by their
\* writes. A notification in flight can be delivered at any time, also when it
\* reports a status that a later write has already replaced, and delivering it
\* leaves the order record as it is.
C26_NotificationsUnordered ==
  \A c \in InFlight :
    c.pc = "notify" => ENABLED (NotifyReturns(c, "notified") /\ db' = db)

\* "confirmed" was written first, "shipped" over it; the notification of
\* "shipped" has just been delivered and that of "confirmed" is still to come
C26_Witness ==
  /\ event = "notified"
  /\ issued = 2
  /\ db[7].status = "shipped"
  /\ BagCardinality(calls) = 1
  /\ \E c \in InFlight : c.pc = "notify" /\ c.body.newStatus = "confirmed"

\* what the tracking field shows for a stored tracking number (defaultValue)
defaultValue(tracking_number) == IF tracking_number = Null THEN "" ELSE tracking_number

\* C27: leaving the tracking field starts a transition call only if the text
\* in the field differs from what the field showed for the stored tracking
\* number, also for an order that has no tracking number yet.
C27_BlurCallsOnlyWhenChanged ==
  [][ \A c \in BagToSet(calls') :
        ( /\ issued' = issued + 1
          /\ CopiesIn(c, calls') > CopiesIn(c, calls)
          /\ c.trackingNumber # Absent ) =>
          c.trackingNumber # defaultValue(orders[c.orderId].tracking_number)
    ]_vars

\* C28: when the response of the last fetchOrders in flight is applied, and no
\* transition call has a write pending, the displayed list shows every order
\* as the record store holds it.
C28_ListMatchesStoreWhenSettled ==
  [][ ( /\ screen = "AdminPage"
        /\ \E f \in BagToSet(fetches) : f.read /\ fetches' = Take(fetches, f) /\ orders' = f.rows
        /\ toasts' = <<>>
        /\ fetches' = EmptyBag
        /\ \A c \in InFlight : c.pc # "update" ) =>
        orders' = db'
    ]_vars

\* C21: a product update leaves every field that the administrator did not
\* change in the row form (it still has the value the edit began with) as the
\* record store holds it at the time of the write.
C21_UpdateKeepsUntouchedFields ==
  [][ \A u \in BagToSet(pupdates) :
        (event' = "productUpdated" /\ pupdates' = Take(pupdates, u)) =>
          \A k \in DOMAIN catalog :
            catalog[k].id = u.id =>
              /\ u.patch.name = u.from.name => catalog'[k].name = catalog[k].name
              /\ u.patch.price = u.from.price => catalog'[k].price = catalog[k].price
    ]_vars

\* C22: a successful sign-in or sign-up redirects exactly once, to "/", by
\* handleSubmit's navigate: the step in which the session store publishes the
\* identity takes no <Navigate> and leaves the location alone, and the step
\* in which the call returns success puts the caller on "/".
C22_RedirectOnlyByNavigate ==
  [][ /\ event' = "sessionBound" => (path' = path /\ redirect' = "none")
      /\ event' = "signedIn" => path' = "/"
    ]_vars

\* C23: a sign-in or sign-up attempt that fails validation or gets an error
\* back shows a message (a field message or a toast), takes no redirect and
\* leaves the session as it was; while the form is still mounted the caller
\* stays on AuthPage with no identity bound.
C23_FailedAttemptStaysPut ==
  [][ /\ event' \in {"authInvalid", "authError"} =>
           /\ errors' # {} \/ toasts' # <<>>
           /\ UNCHANGED <<loading, user, isAdmin, path, screen, redirect>>
      /\ event' = "authInvalid" => (screen' = "AuthPage" /\ user' = NoUser)
      /\ \A a \in BagToSet(attempts) :
           (event' = "authError" /\ a.live /\ attempts' = Take(attempts, a)) =>
             (screen' = "AuthPage" /\ user' = NoUser /\ ~a.bound)
    ]_vars

C23_Witness ==
  /\ event = "authError"
  /\ toasts = <<"Invalid email or password">>
  /\ screen = "AuthPage"
  /\ user = NoUser
  /\ ~submitting
  /\ attempted = 1

\* C29: retryCount never exceeds 5, and the retries stop: counting the timer
\* that is still pending, an instance of GoogleTranslateBar schedules at most
\* five retries, at most one at a time.
C29_RetriesBounded ==
  /\ retryCount <= 5
  /\ timers <= 1
  /\ retryCount + timers <= 5

C29_Witness ==
  /\ retryCount = 5
  /\ timers = 0
  /\ ~effect
  /\ init = 5
  /\ google = "namespace"
  /\ ~isLoaded

\* C30: isLoading is true whenever a get-weather request of fetchWeather is
\* in flight, and false once none is.
C30_LoadingWhileInFlight ==
  isLoading <=> requests # EmptyBag

====
